---- MODULE Spec2Model ----
(***************************************************************************)
(* go-mtpx: path resolution, object description, tree walk and the         *)
(* create helpers over an MTP device, which addresses objects by numeric   *)
(* handles only.                                                           *)
(*                                                                         *)
(* The device is the state: `objects` is the device's object table in the  *)
(* order the device enumerates it, `nextId` the next handle it hands out.  *)
(* Every helper of the package is a function of the device state and of    *)
(* its arguments, computed here as the code computes it; an action applies *)
(* one helper to the current device and records the call in `last`, the    *)
(* call before it in `prev`.                                               *)
(*                                                                         *)
(* Device calls that fail are given by a fault set `flt` of pairs          *)
(* <<call, handle>>: the device call `call` on `handle` returns an error   *)
(* for the duration of one helper call.  Each action draws its own fault   *)
(* set, so a fault may come and go between two calls.                      *)
(*                                                                         *)
(* A path is a sequence of tokens: the separator "/", the backslash, or a  *)
(* piece of a name.  TLC's integers are 32 bits wide, so the 32-bit        *)
(* all-ones values of the code (the size sentinel 0xffffffff, the root     *)
(* handle) are written as the all-ones value of a 16-bit field.            *)
(***************************************************************************)
EXTENDS Integers, Sequences, FiniteSets, TLC

VARIABLES objects, nextId, last, prev

vars == <<objects, nextId, last, prev>>

(***************************************************************************)
(* Bounds of the model.                                                    *)
(***************************************************************************)
\* objects on the device in an initial state of Spec
MaxObjects == 3
\* objects on the device in an initial state of SpecPath
MaxPathObjects == 2
\* tokens in a path handed to GetObjectFromPath
MaxPathLen == 3
\* handles the device hands out in SpecMake
MaxHandles == 3

(***************************************************************************)
(* Program constants.                                                      *)
(***************************************************************************)
\* obj.CompressedSize == 0xffffffff: "ask for the 64-bit size"
SizeSentinel == 65535
\* the compact sizes of the objects of the model, and the 64-bit size the
\* device reports for each (OPC_ObjectSize)
CompressedSizes == {7, SizeSentinel}
ObjectSizeOf(csize) == IF csize = SizeSentinel THEN SizeSentinel + 4465 ELSE csize
\* the handle of the root directory (mtp's 0xFFFFFFFF)
ParentObjectId == 65535

PathSep == "/"
BackSlash == "\\"
OFC_Association == "Association"
OFC_Undefined == "Undefined"

\* file names that walks skip (isDisallowedFiles)
disallowedFiles == {".DS_Store"}
Names == {"a", ".DS_Store"}

(***************************************************************************)
(* Errors: a sequence of error kinds, outermost first; <<>> is nil.  An    *)
(* error that wraps another (FileObjectError{error: err}) is the kind      *)
(* followed by the wrapped error.                                          *)
(***************************************************************************)
NoError == <<>>
DeviceError == <<"device">>
CallbackError == <<"callback">>
InvalidPathError == <<"InvalidPathError">>
FileNotFoundError == <<"FileNotFoundError">>
FileObjectError(err) == <<"FileObjectError">> \o err
ListDirectoryError(err) == <<"ListDirectoryError">> \o err
SendObjectError(err) == <<"SendObjectError">> \o err
ErrKind(err) == IF err = NoError THEN "nil" ELSE Head(err)

(***************************************************************************)
(* The device (package mtp), as the helpers use it.                        *)
(***************************************************************************)
DevFails(flt, call, h) == <<call, h>> \in flt

HasObject(objs, id) == \E i \in DOMAIN objs : objs[i].ObjectId = id

ObjectOf(objs, id) == objs[CHOOSE i \in DOMAIN objs : objs[i].ObjectId = id]

\* dev.GetObjectHandles(storageId, GOH_ALL_ASSOCS, parent, &handles):
\* the children of `parent`, in the device's order
GetObjectHandles(objs, parent) ==
    LET s == SelectSeq(objs, LAMBDA o : o.ParentObject = parent)
    IN  [i \in 1..Len(s) |-> s[i].ObjectId]

\* dev.GetObjectInfo(objectId, &obj) succeeds
GetObjectInfoOk(objs, flt, objectId) ==
    HasObject(objs, objectId) /\ ~DevFails(flt, "GetObjectInfo", objectId)

(***************************************************************************)
(* Paths.                                                                  *)
(***************************************************************************)
ReplaceBackSlash(p) ==
    [i \in 1..Len(p) |-> IF p[i] = BackSlash THEN PathSep ELSE p[i]]

RECURSIVE TrimLeadingSep(_)
TrimLeadingSep(p) ==
    IF p # <<>> /\ Head(p) = PathSep THEN TrimLeadingSep(Tail(p)) ELSE p

\* fixSlash: backslashes become slashes, exactly one leading slash, no
\* trailing slash except for the root
fixSlash(p) ==
    LET q == <<PathSep>> \o TrimLeadingSep(ReplaceBackSlash(p))
    IN  IF Len(q) > 1 /\ q[Len(q)] = PathSep THEN SubSeq(q, 1, Len(q) - 1) ELSE q

RECURSIVE CollapseSep(_)
CollapseSep(p) ==
    IF Len(p) < 2 THEN p
    ELSE IF p[1] = PathSep /\ p[2] = PathSep THEN CollapseSep(Tail(p))
    ELSE <<Head(p)>> \o CollapseSep(Tail(p))

\* getFullPath: parent and name joined by one separator
getFullPath(parentPath, filename) ==
    CollapseSep(parentPath \o <<PathSep, filename>>)

RECURSIVE SplitAcc(_, _, _)
SplitAcc(p, cur, acc) ==
    IF p = <<>> THEN Append(acc, cur)
    ELSE IF Head(p) = PathSep THEN SplitAcc(Tail(p), "", Append(acc, cur))
    ELSE SplitAcc(Tail(p), cur \o Head(p), acc)

\* strings.Split(p, PathSep)
Split(p) == SplitAcc(p, "", <<>>)

\* indexExists(arr, index), index counted from 0 as in the code
indexExists(arr, index) == index < Len(arr)

isDisallowedFiles(filename) == filename \in disallowedFiles

(***************************************************************************)
(* Object description.                                                     *)
(***************************************************************************)
\* a nil *FileInfo
NilFileInfo ==
    [ObjectId |-> 0, ParentId |-> 0, Name |-> "", IsDir |-> FALSE, Size |-> 0,
     FullPath |-> <<>>, ParentPath |-> <<>>]

isObjectADir(obj) == obj.ObjectFormat = OFC_Association

GetFileSize(flt, obj, objectId) ==
    IF obj.CompressedSize = SizeSentinel
    THEN IF DevFails(flt, "GetObjectSize", objectId)
         THEN [size |-> 0, err |-> FileObjectError(DeviceError)]
         ELSE [size |-> obj.ObjectSize, err |-> NoError]
    ELSE [size |-> obj.CompressedSize, err |-> NoError]

GetObjectFromObjectId(objs, flt, objectId, parentPath) ==
    IF objectId = ParentObjectId
    THEN [fi |-> [ObjectId |-> ParentObjectId, ParentId |-> 0, Name |-> "",
                  IsDir |-> TRUE, Size |-> SizeSentinel,
                  FullPath |-> <<PathSep>>, ParentPath |-> <<>>],
          err |-> NoError]
    ELSE IF ~GetObjectInfoOk(objs, flt, objectId)
    THEN [fi |-> NilFileInfo, err |-> FileObjectError(DeviceError)]
    ELSE LET obj == ObjectOf(objs, objectId)
             size == GetFileSize(flt, obj, objectId).size
             _parentPath == fixSlash(parentPath)
         IN  [fi |-> [ObjectId |-> objectId, ParentId |-> obj.ParentObject,
                      Name |-> obj.Filename, IsDir |-> isObjectADir(obj),
                      Size |-> size,
                      FullPath |-> getFullPath(_parentPath, obj.Filename),
                      ParentPath |-> _parentPath],
              err |-> NoError]

(***************************************************************************)
(* Name lookup and path resolution.                                        *)
(***************************************************************************)
RECURSIVE LookupLoop(_, _, _, _, _)
LookupLoop(objs, flt, handles, i, filename) ==
    IF i > Len(handles)
    THEN [fi |-> NilFileInfo, err |-> FileNotFoundError]
    ELSE IF DevFails(flt, "GetObjectFileName", handles[i])
    THEN [fi |-> NilFileInfo, err |-> FileObjectError(DeviceError)]
    ELSE IF ObjectOf(objs, handles[i]).Filename # filename
    THEN LookupLoop(objs, flt, handles, i + 1, filename)
    ELSE LET r == GetObjectFromObjectId(objs, flt, handles[i], <<>>)
         IN  IF r.err # NoError
             THEN [fi |-> NilFileInfo, err |-> FileObjectError(r.err)]
             ELSE IF r.fi.Name = filename THEN r
             ELSE LookupLoop(objs, flt, handles, i + 1, filename)

GetObjectFromParentIdAndFilename(objs, flt, parentId, filename) ==
    IF DevFails(flt, "GetObjectHandles", parentId)
    THEN [fi |-> NilFileInfo, err |-> FileObjectError(DeviceError)]
    ELSE LookupLoop(objs, flt, GetObjectHandles(objs, parentId), 1, filename)

skipIndex == 1

\* mutant: the guard looks one segment too far
MidPathFileOffByOne(_fi, splittedFilePath, i) ==
    ~_fi.IsDir /\ indexExists(splittedFilePath, i + 2 + skipIndex)

\* the guard of GetObjectFromPath's loop: a file with segments left
MidPathFile(_fi, splittedFilePath, i) ==
    ~_fi.IsDir /\ indexExists(splittedFilePath, i + 1 + skipIndex)

\* mutant: every failure of a lookup is reported as an invalid path
LookupFailureAlwaysInvalidPath(err) == InvalidPathError

\* what GetObjectFromPath returns when the lookup of a segment fails
LookupFailure(err) ==
    IF ErrKind(err) = "FileNotFoundError" THEN InvalidPathError ELSE err

\* the loop of GetObjectFromPath over splittedFilePath[skipIndex:], at index
\* i (from 0) of that slice
RECURSIVE PathLoop(_, _, _, _, _, _, _)
PathLoop(objs, flt, splittedFilePath, i, objectId, fi, resultCount) ==
    IF i + skipIndex >= Len(splittedFilePath)
    THEN IF resultCount < 1 \/ fi = NilFileInfo
         THEN [fi |-> NilFileInfo, err |-> InvalidPathError]
         ELSE [fi |-> fi, err |-> NoError]
    ELSE LET fName == splittedFilePath[i + skipIndex + 1]
             r == GetObjectFromParentIdAndFilename(objs, flt, objectId, fName)
         IN  IF r.err # NoError
             THEN [fi |-> NilFileInfo, err |-> LookupFailure(r.err)]
             ELSE IF MidPathFile(r.fi, splittedFilePath, i)
             THEN [fi |-> NilFileInfo, err |-> InvalidPathError]
             ELSE PathLoop(objs, flt, splittedFilePath, i + 1, r.fi.ObjectId,
                           r.fi, resultCount + 1)

GetObjectFromPath(objs, flt, fullPath) ==
    IF fullPath = <<>>
    THEN [fi |-> NilFileInfo, err |-> InvalidPathError]
    ELSE LET _filePath == fixSlash(fullPath)
         IN  IF _filePath = <<PathSep>>
             THEN GetObjectFromObjectId(objs, flt, ParentObjectId, <<>>)
             ELSE LET r == PathLoop(objs, flt, Split(_filePath), 0,
                                    ParentObjectId, NilFileInfo, 0)
                  IN  IF r.err # NoError THEN r
                      ELSE [fi |-> [r.fi EXCEPT !.FullPath = _filePath],
                            err |-> NoError]

GetObjectFromObjectIdOrPath(objs, flt, objectId, fullPath) ==
    IF objectId = 0 /\ fullPath = <<>>
    THEN [fi |-> NilFileInfo, err |-> InvalidPathError]
    ELSE IF objectId = 0 THEN GetObjectFromPath(objs, flt, fullPath)
    ELSE GetObjectFromObjectId(objs, flt, objectId, fullPath)

(***************************************************************************)
(* The walk.  The visitor cb fails on its failAt-th call (never when       *)
(* failAt = 0); `visits` is the sequence of handles it was called on.      *)
(***************************************************************************)
cb(failAt, visits) == IF Len(visits) = failAt THEN CallbackError ELSE NoError

\* mutant: the error of the description is not looked at
ChildDescribedAlways(d) == TRUE

\* `if err != nil { continue }` after describing a child
ChildDescribed(d) == d.err = NoError

\* mutant: the exclusion filter is never applied
SkipEntryNever(skipDisallowedFiles, fi) == FALSE

\* the exclusion filter of the loop
SkipEntry(skipDisallowedFiles, fi) ==
    skipDisallowedFiles /\ isDisallowedFiles(fi.Name)

\* mutant: the entry is counted only after cb has succeeded
CountBeforeIncrement(totalFiles) == totalFiles - 1

\* the count returned when cb fails, totalFiles being the count after
\* `totalFiles += 1`
CountAtCallbackFailure(totalFiles) == totalFiles

RECURSIVE proccessWalk(_, _, _, _, _, _, _, _)
RECURSIVE WalkLoop(_, _, _, _, _, _, _, _, _, _)

\* mutant: a directory's entries are walked before cb is called on it
WalkLoopPostOrder(objs, flt, handles, i, fullPath, recursive, skipDisallowedFiles, failAt, totalFiles, visits) ==
    IF i > Len(handles)
    THEN [total |-> totalFiles, err |-> NoError, visits |-> visits]
    ELSE LET objId == handles[i]
             d == GetObjectFromObjectId(objs, flt, objId, fullPath)
             total1 == totalFiles + 1
             n == IF recursive /\ d.fi.IsDir
                  THEN proccessWalk(objs, flt, objId, d.fi.FullPath, recursive,
                                    skipDisallowedFiles, failAt, visits)
                  ELSE [total |-> 0, err |-> NoError, visits |-> visits]
             visits1 == Append(n.visits, objId)
         IN  IF ~ChildDescribed(d) \/ SkipEntry(skipDisallowedFiles, d.fi)
             THEN WalkLoop(objs, flt, handles, i + 1, fullPath, recursive,
                           skipDisallowedFiles, failAt, totalFiles, visits)
             ELSE IF n.err # NoError
             THEN [total |-> total1, err |-> n.err, visits |-> n.visits]
             ELSE IF cb(failAt, visits1) # NoError
             THEN [total |-> CountAtCallbackFailure(total1 + n.total),
                   err |-> cb(failAt, visits1), visits |-> visits1]
             ELSE WalkLoop(objs, flt, handles, i + 1, fullPath, recursive,
                           skipDisallowedFiles, failAt, total1 + n.total,
                           visits1)

WalkLoop(objs, flt, handles, i, fullPath, recursive, skipDisallowedFiles, failAt, totalFiles, visits) ==
    IF i > Len(handles)
    THEN [total |-> totalFiles, err |-> NoError, visits |-> visits]
    ELSE LET objId == handles[i]
             d == GetObjectFromObjectId(objs, flt, objId, fullPath)
             total1 == totalFiles + 1
             visits1 == Append(visits, objId)
         IN  IF ~ChildDescribed(d) \/ SkipEntry(skipDisallowedFiles, d.fi)
             THEN WalkLoop(objs, flt, handles, i + 1, fullPath, recursive,
                           skipDisallowedFiles, failAt, totalFiles, visits)
             ELSE IF cb(failAt, visits1) # NoError
             THEN [total |-> CountAtCallbackFailure(total1),
                   err |-> cb(failAt, visits1), visits |-> visits1]
             ELSE IF ~recursive \/ ~d.fi.IsDir
             THEN WalkLoop(objs, flt, handles, i + 1, fullPath, recursive,
                           skipDisallowedFiles, failAt, total1, visits1)
             ELSE LET n == proccessWalk(objs, flt, objId, d.fi.FullPath,
                                        recursive, skipDisallowedFiles,
                                        failAt, visits1)
                  IN  IF n.err # NoError
                      THEN [total |-> total1, err |-> n.err, visits |-> n.visits]
                      ELSE WalkLoop(objs, flt, handles, i + 1, fullPath,
                                    recursive, skipDisallowedFiles, failAt,
                                    total1 + n.total, n.visits)

proccessWalk(objs, flt, objectId, fullPath, recursive, skipDisallowedFiles, failAt, visits) ==
    LET r == GetObjectFromObjectIdOrPath(objs, flt, objectId, fullPath)
    IN  IF r.err # NoError
        THEN [total |-> 0, err |-> r.err, visits |-> visits]
        ELSE IF DevFails(flt, "GetObjectHandles", r.fi.ObjectId)
        THEN [total |-> 0, err |-> ListDirectoryError(DeviceError),
              visits |-> visits]
        ELSE WalkLoop(objs, flt, GetObjectHandles(objs, r.fi.ObjectId), 1,
                      fullPath, recursive, skipDisallowedFiles, failAt, 0,
                      visits)

(***************************************************************************)
(* Devices.                                                                *)
(***************************************************************************)
Ids(objs) == {objs[i].ObjectId : i \in DOMAIN objs}

Formats == {OFC_Association, OFC_Undefined}

\* an object as the device holds it
DeviceObject(id, filename, format, parent, csize) ==
    [ObjectId |-> id, Filename |-> filename, ObjectFormat |-> format,
     ParentObject |-> parent, CompressedSize |-> csize,
     ObjectSize |-> ObjectSizeOf(csize)]

\* the objects a device may hold at handle id, listed after the table t
NextObjects(t, id, dirsOnly, sizes) ==
    {DeviceObject(id, nm, fmt, par, sz) :
        nm \in Names, fmt \in Formats,
        par \in {ParentObjectId}
                  \cup {t[i].ObjectId : i \in {j \in DOMAIN t :
                                        dirsOnly => isObjectADir(t[j])}},
        sz \in {0} \cup sizes} \cap
    {o \in [ObjectId : {id}, Filename : Names, ObjectFormat : Formats,
            ParentObject : {ParentObjectId} \cup (1..id),
            CompressedSize : {0} \cup sizes,
            ObjectSize : {ObjectSizeOf(z) : z \in {0} \cup sizes}] :
        o.CompressedSize = 0 <=> isObjectADir(o)}

\* the device tables of n objects: handles 1..n in the order the device
\* lists them, every object under the root or under an object listed
\* before it; `dirsOnly`: only under a directory; `sizes`: the compact sizes
\* of files (a directory's is 0)
RECURSIVE DeviceTables(_, _, _)
DeviceTables(n, dirsOnly, sizes) ==
    IF n = 0 THEN {<<>>}
    ELSE UNION {{Append(t, o) : o \in NextObjects(t, n, dirsOnly, sizes)} :
                  t \in DeviceTables(n - 1, dirsOnly, sizes)}

None == [op |-> "none"]

(***************************************************************************)
(* Spec: walks over a device that does not change.                         *)
(***************************************************************************)
Init ==
    /\ objects \in UNION {DeviceTables(n, TRUE, {7}) : n \in 0..MaxObjects}
    /\ nextId = Len(objects) + 1
    /\ last = None
    /\ prev = None

\* the device calls of a walk that may fail: any of the descriptions, or
\* one listing
WalkFaults(objs) ==
    SUBSET {<<"GetObjectInfo", h>> : h \in Ids(objs)}
      \cup {{<<"GetObjectHandles", h>>} : h \in Ids(objs) \cup {ParentObjectId}}

\* the anchors of a walk: a handle, or a path with no handle
WalkAnchors(objs) ==
    {<<ParentObjectId, <<>>>>, <<0, <<PathSep, "a">>>>}

Walk ==
    /\ last = None
    /\ \E a \in WalkAnchors(objects), recursive \in BOOLEAN, skip \in BOOLEAN,
          failAt \in 0..Len(objects), flt \in WalkFaults(objects) :
        LET w == proccessWalk(objects, flt, a[1], a[2], recursive, skip,
                              failAt, <<>>)
        IN  /\ failAt > 0 => (Cardinality(flt) <= 1 /\ \A f \in flt : f[1] = "GetObjectInfo")
            /\ last' = [op |-> "walk", objectId |-> a[1], fullPath |-> a[2],
                        recursive |-> recursive, skip |-> skip,
                        failAt |-> failAt, flt |-> flt, total |-> w.total,
                        err |-> w.err, visits |-> w.visits]
            /\ prev' = None
            /\ UNCHANGED <<objects, nextId>>

Next == Walk

Spec == Init /\ [][Next]_vars

(***************************************************************************)
(* What the claims about the walk speak of.                                *)
(***************************************************************************)
IsWalk == last.op = "walk"

\* the handle the last walk started from
WalkAnchor ==
    GetObjectFromObjectIdOrPath(objects, last.flt, last.objectId,
                                last.fullPath)

ParentOf(h) == ObjectOf(objects, h).ParentObject

PositionOf(h) == CHOOSE i \in DOMAIN objects : objects[i].ObjectId = h

IndexOf(seq, x) == CHOOSE i \in DOMAIN seq : seq[i] = x

Range(seq) == {seq[i] : i \in DOMAIN seq}

\* the entry directly under `anchor` that is h or contains h
RECURSIVE TopUnder(_, _)
TopUnder(anchor, h) ==
    IF ParentOf(h) = anchor THEN h ELSE TopUnder(anchor, ParentOf(h))

RECURSIVE IsDescendant(_, _)
IsDescendant(h, a) ==
    /\ HasObject(objects, h)
    /\ ParentOf(h) = a \/ IsDescendant(ParentOf(h), a)

Describable(h) == ~DevFails(last.flt, "GetObjectInfo", h)

Excluded(h) == isDisallowedFiles(ObjectOf(objects, h).Filename)

\* h is an entry the last walk has to visit
RECURSIVE Reached(_, _)
Reached(anchor, h) ==
    /\ Describable(h)
    /\ ~(last.skip /\ Excluded(h))
    /\ \/ ParentOf(h) = anchor
       \/ /\ last.recursive
          /\ HasObject(objects, ParentOf(h))
          /\ isObjectADir(ObjectOf(objects, ParentOf(h)))
          /\ Reached(anchor, ParentOf(h))

ChildrenOf(anchor) == GetObjectHandles(objects, anchor)

\* C1 (as stated): when the visitor fails on the k-th entry it is called on,
\* the walk returns the failure with a count that leaves the failing entry
\* out: the k-1 entries visited before it.
C1_CountExcludesFailingEntry ==
    (IsWalk /\ last.err = CallbackError) => last.total = last.failAt - 1

\* C1 (amended): when the visitor fails on the k-th entry, the walk returns
\* that failure and the count is the place, in the sequence of visits, of the
\* entry directly under the walk's root that is or contains the failing
\* entry: the failing entry is counted, the entries of a nested walk that was
\* still running are not.  It is k when the failing entry lies directly under
\* the root (every non-recursive walk).
C1_CountAtAbort ==
    (IsWalk /\ last.err = CallbackError) =>
        LET k == Len(last.visits)
            top == TopUnder(WalkAnchor.fi.ObjectId, last.visits[k])
        IN  /\ k = last.failAt
            /\ last.total = IndexOf(last.visits, top)
            /\ top = last.visits[k] => last.total = k

\* a recursive walk that the visitor stops inside the second entry of the root
C1_Witness ==
    /\ IsWalk /\ last.err = CallbackError /\ last.recursive
    /\ last.failAt = 3 /\ last.total = 2
    /\ ParentOf(last.visits[3]) = last.visits[2]

\* C6: a non-recursive walk with skipDisallowedFiles, a visitor that never
\* fails and every child describable visits exactly the N children with
\* allowed names, in the device's order, never an excluded one, and returns N.
C6_SkipsExcluded ==
    (/\ IsWalk /\ ~last.recursive /\ last.skip /\ last.failAt = 0
     /\ last.err = NoError
     /\ \A i \in DOMAIN ChildrenOf(WalkAnchor.fi.ObjectId) :
            Describable(ChildrenOf(WalkAnchor.fi.ObjectId)[i])) =>
        LET allowed == SelectSeq(ChildrenOf(WalkAnchor.fi.ObjectId),
                                 LAMBDA h : ~Excluded(h))
        IN  /\ last.visits = allowed
            /\ last.total = Len(allowed)
            /\ \A i \in DOMAIN last.visits : ~Excluded(last.visits[i])

\* two allowed children and an excluded one
C6_Witness ==
    /\ IsWalk /\ ~last.recursive /\ last.skip /\ last.failAt = 0
    /\ last.err = NoError /\ last.flt = {}
    /\ Len(ChildrenOf(WalkAnchor.fi.ObjectId)) = 3
    /\ last.total = 2
    /\ \E i \in 1..3 : Excluded(ChildrenOf(WalkAnchor.fi.ObjectId)[i])

\* C7: in a walk whose only failures are descriptions of children (the
\* anchor resolves, no listing fails, the visitor never fails), a child whose
\* description fails is neither visited nor counted, every other entry the
\* walk has to reach is visited once, and the walk returns no error.
C7_DescribeFailureSkipped ==
    (/\ IsWalk /\ last.failAt = 0
     /\ WalkAnchor.err = NoError
     /\ \A f \in last.flt : f[1] = "GetObjectInfo") =>
        /\ last.err = NoError
        /\ \A i \in DOMAIN last.visits : Describable(last.visits[i])
        /\ last.total = Len(last.visits)
        /\ Cardinality(Range(last.visits)) = Len(last.visits)
        /\ Range(last.visits) =
             {h \in Ids(objects) : Reached(WalkAnchor.fi.ObjectId, h)}

\* the description of a child fails and a child listed after it is visited
C7_Witness ==
    /\ IsWalk /\ last.failAt = 0 /\ WalkAnchor.err = NoError
    /\ last.err = NoError
    /\ \E h \in Ids(objects), g \in Range(last.visits) :
          /\ ~Describable(h)
          /\ ParentOf(h) = WalkAnchor.fi.ObjectId
          /\ ParentOf(g) = WalkAnchor.fi.ObjectId
          /\ PositionOf(h) < PositionOf(g)

\* C9: the visits of a recursive walk are in depth-first pre-order: an entry
\* is visited after its directory, the entries under an entry are visited
\* before anything else is, and the entries of one directory are visited in
\* the order the device lists them.
C9_PreOrder ==
    (IsWalk /\ last.recursive) =>
        LET v == last.visits IN
        /\ \A i \in DOMAIN v :
              \/ ParentOf(v[i]) = WalkAnchor.fi.ObjectId
              \/ \E j \in 1..(i - 1) : v[j] = ParentOf(v[i])
        /\ \A i, j, l \in DOMAIN v :
              (i < j /\ j < l /\ IsDescendant(v[l], v[i])) =>
                  IsDescendant(v[j], v[i])
        /\ \A i, j \in DOMAIN v :
              (i < j /\ ParentOf(v[i]) = ParentOf(v[j])) =>
                  PositionOf(v[i]) < PositionOf(v[j])

\* a directory, the entry under it, then the directory's next sibling
C9_Witness ==
    /\ IsWalk /\ last.recursive /\ last.err = NoError
    /\ Len(last.visits) = 3
    /\ ParentOf(last.visits[2]) = last.visits[1]
    /\ ParentOf(last.visits[3]) = ParentOf(last.visits[1])

(***************************************************************************)
(* SpecPath: path resolution over a device that does not change.  An       *)
(* object may sit under a file here: the device decides what it lists.     *)
(***************************************************************************)
PathTokens == {PathSep, BackSlash, "a"}

Paths == UNION {[1..k -> PathTokens] : k \in 0..MaxPathLen}

\* one device call that fails, or none
PathFaults(objs) ==
    {{}} \cup {{<<c, h>>} :
                 c \in {"GetObjectHandles", "GetObjectFileName", "GetObjectInfo"},
                 h \in Ids(objs)}
         \cup {{<<"GetObjectHandles", ParentObjectId>>}}

InitPath ==
    /\ objects \in UNION {DeviceTables(n, FALSE, {7}) : n \in 0..MaxPathObjects}
    /\ nextId = Len(objects) + 1
    /\ last = None
    /\ prev = None

ResolvePath ==
    /\ last = None
    /\ \E path \in Paths, flt \in PathFaults(objects) :
        LET r == GetObjectFromPath(objects, flt, path)
        IN  /\ last' = [op |-> "resolve", path |-> path, flt |-> flt,
                        fi |-> r.fi, err |-> r.err]
            /\ prev' = None
            /\ UNCHANGED <<objects, nextId>>

NextPath == ResolvePath

SpecPath == InitPath /\ [][NextPath]_vars

IsResolve == last.op = "resolve"

\* the segments the last resolution looks up, after the empty first piece
Splitted == Split(fixSlash(last.path))

Segments == SubSeq(Splitted, 2, Len(Splitted))

\* the resolution of the first n segments of the last path on their own
PrefixResolution(n) ==
    PathLoop(objects, last.flt, SubSeq(Splitted, 1, n + 1), 0, ParentObjectId,
             NilFileInfo, 0)

\* the resolution comes to look up segment n: the segments before it resolve
\* to a directory
LooksUp(n) ==
    n = 1 \/ (PrefixResolution(n - 1).err = NoError /\ PrefixResolution(n - 1).fi.IsDir)

\* the lookup of segment n of the last path
LookupOf(n) ==
    GetObjectFromParentIdAndFilename(
        objects, last.flt,
        IF n = 1 THEN ParentObjectId ELSE PrefixResolution(n - 1).fi.ObjectId,
        Segments[n])

\* C2: when a proper prefix of a path of two segments or more resolves to an
\* object that is not a directory, the resolution of the path fails with
\* InvalidPath, whether or not that object has a child named as the next
\* segment.
C2_MidPathGuard ==
    (/\ IsResolve /\ last.path # <<>> /\ Len(Segments) >= 2
     /\ \E n \in 1..(Len(Segments) - 1) :
           /\ PrefixResolution(n).err = NoError
           /\ ~PrefixResolution(n).fi.IsDir) =>
        /\ last.err = InvalidPathError
        /\ last.fi = NilFileInfo

\* the first segment is a file and the device lists the second under it
C2_Witness ==
    /\ IsResolve /\ last.path # <<>> /\ Len(Segments) = 2
    /\ PrefixResolution(1).err = NoError
    /\ ~PrefixResolution(1).fi.IsDir
    /\ \E i \in DOMAIN objects :
          /\ objects[i].ParentObject = PrefixResolution(1).fi.ObjectId
          /\ objects[i].Filename = Segments[2]
    /\ last.err = InvalidPathError

\* C8: when the lookup of a segment fails with FileNotFound the resolution
\* fails with InvalidPath, and never with FileNotFound; when the lookup fails
\* with an error of another kind the resolution fails with that very error.
C8_LookupErrors ==
    (IsResolve /\ last.path # <<>> /\ fixSlash(last.path) # <<PathSep>>) =>
        /\ ErrKind(last.err) # "FileNotFoundError"
        /\ \A n \in DOMAIN Segments :
              (LooksUp(n) /\ LookupOf(n).err # NoError) =>
                  IF ErrKind(LookupOf(n).err) = "FileNotFoundError"
                  THEN last.err = InvalidPathError
                  ELSE last.err = LookupOf(n).err

\* the lookup of the second segment fails on a device call
C8_Witness ==
    /\ IsResolve /\ last.path # <<>> /\ Len(Segments) = 2
    /\ LooksUp(2)
    /\ ErrKind(LookupOf(2).err) = "FileObjectError"
    /\ last.err = LookupOf(2).err

(***************************************************************************)
(* SpecMeta: descriptions of the objects of a device that does not change. *)
(***************************************************************************)
InitMeta ==
    /\ objects \in UNION {DeviceTables(n, TRUE, CompressedSizes) : n \in 0..MaxPathObjects}
    /\ nextId = Len(objects) + 1
    /\ last = None
    /\ prev = None

Describe ==
    /\ last = None
    /\ \E objectId \in Ids(objects) \cup {ParentObjectId, nextId},
          parentPath \in {<<>>, <<PathSep, "a">>, <<"a", BackSlash>>} :
       \E flt \in SUBSET {<<"GetObjectInfo", objectId>>, <<"GetObjectSize", objectId>>} :
        LET r == GetObjectFromObjectId(objects, flt, objectId, parentPath)
        IN  /\ last' = [op |-> "describe", objectId |-> objectId,
                        parentPath |-> parentPath, flt |-> flt,
                        fi |-> r.fi, err |-> r.err]
            /\ prev' = None
            /\ UNCHANGED <<objects, nextId>>

NextMeta == Describe

SpecMeta == InitMeta /\ [][NextMeta]_vars

\* C10: describing an object other than the root whose compact size is the
\* sentinel fails with a FileObjectError, and returns no descriptor, when the
\* query of the precise size fails.
C10_SizeQueryFailurePropagates ==
    (/\ last.op = "describe"
     /\ last.objectId # ParentObjectId
     /\ GetObjectInfoOk(objects, last.flt, last.objectId)
     /\ ObjectOf(objects, last.objectId).CompressedSize = SizeSentinel
     /\ DevFails(last.flt, "GetObjectSize", last.objectId)) =>
        /\ ErrKind(last.err) = "FileObjectError"
        /\ last.fi = NilFileInfo

(***************************************************************************)
(* The create helpers.  Each returns the device after the call, the handle *)
(* and error of the Go function, and `calls`: the device calls that change *)
(* the device, in the order they were issued.                              *)
(***************************************************************************)
\* dev.SendObjectInfo succeeds: the device takes an object under the root or
\* under an object it holds
SendObjectInfoOk(objs, flt, parent) ==
    /\ ~DevFails(flt, "SendObjectInfo", parent)
    /\ parent = ParentObjectId \/ HasObject(objs, parent)

\* the objects under h, h included
RECURSIVE Subtree(_, _)
Subtree(objs, h) ==
    {h} \cup UNION {Subtree(objs, objs[i].ObjectId) :
                      i \in {j \in DOMAIN objs : objs[j].ParentObject = h}}

\* DeleteFile(dev, storageId, objectId, ""): dev.DeleteObject on the handle
DeleteFile(objs, flt, objectId) ==
    IF DevFails(flt, "DeleteObject", objectId)
    THEN [objects |-> objs, err |-> FileObjectError(DeviceError), calls |-> <<>>]
    ELSE [objects |-> SelectSeq(objs, LAMBDA o : o.ObjectId \notin Subtree(objs, objectId)),
          err |-> NoError,
          calls |-> <<<<"DeleteObject", objectId>>>>]

\* mutant: the directory is sent to the root, not to parentId
handleMakeDirectoryInRoot(objs, nid, flt, parentId, filename) ==
    IF ~SendObjectInfoOk(objs, flt, parentId)
    THEN [objects |-> objs, nextId |-> nid, objId |-> 0,
          err |-> SendObjectError(DeviceError), calls |-> <<>>]
    ELSE [objects |-> Append(objs, DeviceObject(nid, filename, OFC_Association, ParentObjectId, 0)),
          nextId |-> nid + 1, objId |-> nid, err |-> NoError,
          calls |-> <<<<"SendObjectInfo", nid>>>>]

handleMakeDirectory(objs, nid, flt, parentId, filename) ==
    IF ~SendObjectInfoOk(objs, flt, parentId)
    THEN [objects |-> objs, nextId |-> nid, objId |-> 0,
          err |-> SendObjectError(DeviceError), calls |-> <<>>]
    ELSE [objects |-> Append(objs, DeviceObject(nid, filename, OFC_Association, parentId, 0)),
          nextId |-> nid + 1, objId |-> nid, err |-> NoError,
          calls |-> <<<<"SendObjectInfo", nid>>>>]

\* mutant: the existing file is replaced whatever overwriteExisting says
OnExistingFileOverwrites(objs, flt, fi, overwriteExisting) ==
    LET d == DeleteFile(objs, flt, fi.ObjectId)
    IN  [done |-> d.err # NoError, objId |-> 0, err |-> d.err,
         objects |-> d.objects, calls |-> d.calls]

\* mutant: the existing file is left on the device when it is overwritten
OnExistingFileKeeps(objs, flt, fi, overwriteExisting) ==
    IF ~overwriteExisting
    THEN [done |-> TRUE, objId |-> fi.ObjectId, err |-> NoError,
          objects |-> objs, calls |-> <<>>]
    ELSE [done |-> FALSE, objId |-> 0, err |-> NoError, objects |-> objs,
          calls |-> <<>>]

\* handleMakeFile when the file exists; `done`: the function returns here
OnExistingFile(objs, flt, fi, overwriteExisting) ==
    IF ~overwriteExisting
    THEN [done |-> TRUE, objId |-> fi.ObjectId, err |-> NoError,
          objects |-> objs, calls |-> <<>>]
    ELSE LET d == DeleteFile(objs, flt, fi.ObjectId)
         IN  [done |-> d.err # NoError, objId |-> 0, err |-> d.err,
              objects |-> d.objects, calls |-> d.calls]

\* handleMakeFile from `create a new object handle` on
SendNewFile(objs, nid, flt, obj, calls) ==
    IF ~SendObjectInfoOk(objs, flt, obj.ParentObject)
    THEN [objects |-> objs, nextId |-> nid, objId |-> 0,
          err |-> SendObjectError(DeviceError), calls |-> calls]
    ELSE [objects |-> Append(objs, DeviceObject(nid, obj.Filename, obj.ObjectFormat, obj.ParentObject, obj.CompressedSize)),
          nextId |-> nid + 1, objId |-> nid,
          err |-> IF DevFails(flt, "SendObject", nid)
                  THEN SendObjectError(DeviceError) ELSE NoError,
          calls |-> calls \o <<<<"SendObjectInfo", nid>>>>
                      \o (IF DevFails(flt, "SendObject", nid) THEN <<>>
                          ELSE <<<<"SendObject", nid>>>>)]

handleMakeFile(objs, nid, flt, obj, overwriteExisting) ==
    LET l == GetObjectFromParentIdAndFilename(objs, flt, obj.ParentObject, obj.Filename)
    IN  IF l.err = NoError
        THEN LET e == OnExistingFile(objs, flt, l.fi, overwriteExisting)
             IN  IF e.done
                 THEN [objects |-> e.objects, nextId |-> nid, objId |-> e.objId,
                       err |-> e.err, calls |-> e.calls]
                 ELSE SendNewFile(e.objects, nid, flt, obj, e.calls)
        ELSE IF ErrKind(l.err) = "FileNotFoundError"
        THEN SendNewFile(objs, nid, flt, obj, <<>>)
        ELSE [objects |-> objs, nextId |-> nid, objId |-> 0, err |-> l.err,
              calls |-> <<>>]

(***************************************************************************)
(* SpecMake: a device that starts empty and is filled by the create        *)
(* helpers.  A call is recorded in `last`; Forget drops the record.  The   *)
(* record is kept in `prev` when the next call is the second of a pair:    *)
(* the same file made again, or the path of a new directory resolved.      *)
(***************************************************************************)
DeviceCalls ==
    {"GetObjectHandles", "GetObjectFileName", "GetObjectInfo", "DeleteObject",
     "SendObjectInfo", "SendObject"}

\* one device call that fails on every handle, or none
MakeFaults ==
    {{}} \cup {{<<c, h>> : h \in (0..(MaxHandles + 1)) \cup {ParentObjectId}} :
                 c \in DeviceCalls}

\* the paths a parent directory is resolved from
ParentPaths ==
    {<<PathSep>>, <<PathSep, "a">>, <<"a", BackSlash>>,
     <<PathSep, "a", PathSep, "a">>}

\* the path of the entry `filename` of the directory at parentPath
JoinPath(parentPath, filename) == getFullPath(fixSlash(parentPath), filename)

InitMake ==
    /\ objects = <<>>
    /\ nextId = 1
    /\ last = None
    /\ prev = None

MakeDirectory ==
    /\ last = None
    /\ nextId <= MaxHandles
    /\ \E parentPath \in ParentPaths, filename \in Names, flt \in MakeFaults :
        LET p == GetObjectFromPath(objects, {}, parentPath)
            m == handleMakeDirectory(objects, nextId, flt, p.fi.ObjectId, filename)
        IN  /\ p.err = NoError
            /\ objects' = m.objects
            /\ nextId' = m.nextId
            /\ last' = [op |-> "mkdir", parentPath |-> parentPath,
                        parent |-> p.fi, name |-> filename, flt |-> flt,
                        had |-> \E i \in DOMAIN objects :
                                   /\ objects[i].ParentObject = p.fi.ObjectId
                                   /\ objects[i].Filename = filename,
                        objId |-> m.objId, err |-> m.err]
            /\ prev' = None

\* the record of handleMakeFile(obj, overwrite) on the device as it is
FileMade(obj, overwrite, flt) ==
    LET l == GetObjectFromParentIdAndFilename(objects, flt, obj.ParentObject, obj.Filename)
        m == handleMakeFile(objects, nextId, flt, obj, overwrite)
    IN  [op |-> "mkfile", obj |-> obj, overwrite |-> overwrite, flt |-> flt,
         existing |-> IF l.err = NoError THEN l.fi.ObjectId ELSE 0,
         before |-> objects, after |-> m.objects, objId |-> m.objId,
         err |-> m.err, calls |-> m.calls]

FileTemplates ==
    [ParentObject : {ParentObjectId} \cup (1..MaxHandles), Filename : Names,
     ObjectFormat : {OFC_Undefined}, CompressedSize : {7}]

MakeFile ==
    /\ last = None
    /\ nextId <= MaxHandles
    /\ \E obj \in FileTemplates, overwrite \in BOOLEAN, flt \in MakeFaults :
        LET m == handleMakeFile(objects, nextId, flt, obj, overwrite)
        IN  /\ objects' = m.objects
            /\ nextId' = m.nextId
            /\ last' = FileMade(obj, overwrite, flt)
            /\ prev' = None

\* the same file is made a second time, overwriteExisting false both times
MakeFileAgain ==
    /\ last.op = "mkfile"
    /\ prev = None
    /\ ~last.overwrite
    /\ nextId <= MaxHandles
    /\ \E flt \in MakeFaults :
        LET m == handleMakeFile(objects, nextId, flt, last.obj, FALSE)
        IN  /\ objects' = m.objects
            /\ nextId' = m.nextId
            /\ last' = FileMade(last.obj, FALSE, flt)
            /\ prev' = last

\* the path of the directory just made is resolved
ResolveCreated ==
    /\ last.op = "mkdir"
    /\ last.err = NoError
    /\ \E flt \in MakeFaults :
        LET path == JoinPath(last.parentPath, last.name)
            r == GetObjectFromPath(objects, flt, path)
        IN  /\ last' = [op |-> "resolve", path |-> path, flt |-> flt,
                        fi |-> r.fi, err |-> r.err]
            /\ prev' = last
            /\ UNCHANGED <<objects, nextId>>

Forget ==
    /\ last # None
    /\ last' = None
    /\ prev' = None
    /\ UNCHANGED <<objects, nextId>>

NextMake ==
    MakeDirectory \/ MakeFile \/ MakeFileAgain \/ ResolveCreated \/ Forget

SpecMake == InitMake /\ [][NextMake]_vars

IsMakeFile == last.op = "mkfile"

Issued(calls, call) == {i \in DOMAIN calls : calls[i][1] = call}

\* C3: handleMakeFile called twice in a row with the same parent and name and
\* overwriteExisting false returns, when both calls succeed, the same handle
\* both times, and neither call asks the device to delete anything.
C3_MakeFileTwice ==
    (IsMakeFile /\ prev.op = "mkfile") =>
        /\ (prev.err = NoError /\ last.err = NoError) => last.objId = prev.objId
        /\ Issued(prev.calls, "DeleteObject") = {}
        /\ Issued(last.calls, "DeleteObject") = {}

\* the first call made the file, the second found it
C3_Witness ==
    /\ IsMakeFile /\ prev.op = "mkfile"
    /\ prev.err = NoError /\ last.err = NoError
    /\ prev.existing = 0
    /\ last.existing = prev.objId
    /\ last.objId = prev.objId

\* C4: handleMakeFile with overwriteExisting true, when the parent has a
\* child of that name: the child is deleted before the info of the new object
\* is sent; a deletion that fails is returned and nothing is created; the
\* handle returned on success is not the handle of the child that was there.
C4_OverwriteReplaces ==
    (IsMakeFile /\ last.overwrite /\ last.existing # 0) =>
        /\ \A i \in Issued(last.calls, "SendObjectInfo") :
              \E j \in 1..(i - 1) : last.calls[j] = <<"DeleteObject", last.existing>>
        /\ DevFails(last.flt, "DeleteObject", last.existing) =>
              /\ last.err = FileObjectError(DeviceError)
              /\ last.calls = <<>>
              /\ last.after = last.before
        /\ last.err = NoError =>
              /\ last.objId # last.existing
              /\ last.objId # 0
              /\ HasObject(last.after, last.objId)
              /\ ~HasObject(last.after, last.existing)

\* an existing file is replaced
C4_Witness ==
    /\ IsMakeFile /\ last.overwrite /\ last.existing # 0
    /\ last.err = NoError
    /\ last.calls = <<<<"DeleteObject", last.existing>>,
                      <<"SendObjectInfo", last.objId>>,
                      <<"SendObject", last.objId>>>>

IsRoundTrip == last.op = "resolve" /\ prev.op = "mkdir"

\* C5 (as stated): after handleMakeDirectory has made D under a directory P
\* resolved from a path, resolving P's path joined with D returns the handle
\* of the new directory, whatever P held before.
C5_RoundTripAnyContent ==
    (IsRoundTrip /\ prev.parent.IsDir /\ last.flt = {}) =>
        /\ last.err = NoError
        /\ last.fi.ObjectId = prev.objId

\* C5 (amended): the same, provided P had no entry named D before the
\* directory was made (and no device call fails during the resolution).
C5_RoundTripFreshName ==
    (IsRoundTrip /\ prev.parent.IsDir /\ ~prev.had /\ last.flt = {}) =>
        /\ last.err = NoError
        /\ last.fi.ObjectId = prev.objId
        /\ last.fi.IsDir

\* a directory made under a directory that is not the root, and found again
C5_Witness ==
    /\ IsRoundTrip /\ prev.parent.IsDir /\ ~prev.had /\ last.flt = {}
    /\ prev.parent.ObjectId # ParentObjectId
    /\ Len(objects) >= 3
    /\ last.fi.ObjectId = prev.objId

====
